---------------------------- MODULE Spec2Model ----------------------------
(***************************************************************************)
(* A model of the BCause B compiler: the single-pass translator of         *)
(* src/unnamed/part_000 (lexical primitives, declarations, statements,     *)
(* the driver `compile`) and the flag handling of src/src/compiler/main.c. *)
(*                                                                         *)
(* Bytes are the integers 0..255, EOF is -1.  A FILE opened for reading    *)
(* is the sequence of bytes not yet consumed (ungetc puts a byte back in   *)
(* front).  A C `long` is a Word: 8 bytes, least significant first, so     *)
(* that 64-bit wrap-around, sign extension and %ld / %lu formatting are    *)
(* computed exactly.  The emitted assembly is a sequence of lines, each    *)
(* the format of the fprintf that wrote it together with the text of       *)
(* its arguments.                                                          *)
(***************************************************************************)
EXTENDS Integers, Sequences, FiniteSets, TLC

VARIABLES
    pc,         \* where the process is
    build,      \* what the build does with an int shifted by 32 bits or more
    argv,       \* the command line: flags, then input files
    fsys,       \* the files the run can open: name -> source fragments
    args,       \* struct compiler_args
    file_i,     \* compile(): the loop index i over input_files
    buffer,     \* compile(): the memstream the assembly is collected in
    stmt_id,    \* statement(): static long stmt_id
    disk,       \* the intermediate and output files that exist
    events,     \* what the driver did so far, in order
    ret,        \* the exit status of the process, or -1 while it runs
    in,         \* unit runs: the FILE handed to the function
    result      \* unit runs: what the function returned

vars == <<pc, build, argv, fsys, args, file_i, buffer, stmt_id, disk, events,
          ret, in, result>>

-----------------------------------------------------------------------------
(* Bounds of the model *)

\* longest byte string handed to the character-literal reader
MaxLit == 9
\* longest byte string handed to the else lookahead
MaxLook == 5
\* most statements in the body of a generated block
MaxItems == 2
\* longest chain of nested statement prefixes in a generated function
MaxNest == 3
\* largest exit status a child process ends with
MaxExit == 2

-----------------------------------------------------------------------------
(* Characters *)

EOF == -1
X86_64_WORD_SIZE == 8

\* the characters the compiler compares with
TAB == 9
NEWLINE == 10
DQUOTE == 34
QUOTE == 39
LPAREN == 40
RPAREN == 41
STAR == 42
COMMA == 44
CH_0 == 48
COLON == 58
SEMICOLON == 59
LBRACKET == 91
RBRACKET == 93
CH_e == 101
CH_n == 110
CH_t == 116
LBRACE == 123
RBRACE == 125

\* the code of a character of the source alphabet used here
Ord(s) ==
    CASE s = "NUL" -> 0   [] s = "\t" -> 9    [] s = "\n" -> 10
      [] s = " " -> 32    [] s = "\"" -> 34   [] s = "'" -> 39
      [] s = "(" -> 40    [] s = ")" -> 41    [] s = "*" -> 42
      [] s = "," -> 44    [] s = "0" -> 48    [] s = "1" -> 49
      [] s = "2" -> 50    [] s = "3" -> 51    [] s = "8" -> 56
      [] s = "9" -> 57    [] s = ":" -> 58    [] s = ";" -> 59
      [] s = "[" -> 91    [] s = "]" -> 93    [] s = "a" -> 97
      [] s = "b" -> 98    [] s = "c" -> 99    [] s = "e" -> 101
      [] s = "f" -> 102   [] s = "g" -> 103   [] s = "l" -> 108
      [] s = "n" -> 110   [] s = "s" -> 115   [] s = "t" -> 116
      [] s = "x" -> 120   [] s = "{" -> 123   [] s = "}" -> 125
      [] s = "h" -> 104   [] s = "i" -> 105   [] s = "o" -> 111
      [] s = "r" -> 114   [] s = "u" -> 117   [] s = "w" -> 119
      [] s = "%" -> 37    [] s = "-" -> 45    [] s = "7" -> 55
      [] s = "4" -> 52    [] s = "5" -> 53    [] s = "6" -> 54
      [] s = "x80" -> 128 [] s = "xC8" -> 200 [] s = "xFF" -> 255

\* the bytes of a text given character by character
Bytes(t) == [k \in 1..Len(t) |-> Ord(t[k])]

\* (char) of the int fgetc returned: char is signed, so 0xFF compares equal to EOF
ToChar(b) == IF b >= 128 THEN b - 256 ELSE b

isdigit(c) == c \in 48..57
isalpha(c) == c \in 65..90 \/ c \in 97..122
isalnum(c) == isalpha(c) \/ isdigit(c)
isspace(c) == c \in 9..13 \/ c = 32

\* fgetc: the next byte, or EOF at the end
fgetc(f) ==
    IF f = << >> THEN [c |-> EOF, in |-> f] ELSE [c |-> Head(f), in |-> Tail(f)]

\* ungetc: c converted to unsigned char goes back in front; ungetc(EOF) does nothing
ungetc(c, f) == IF c = EOF THEN f ELSE <<c % 256>> \o f

-----------------------------------------------------------------------------
(* 64-bit words: <<b0, ..., b7>>, b0 the least significant byte *)

ByteIdx == 1..8
W0 == <<0, 0, 0, 0, 0, 0, 0, 0>>
WAllOnes == <<255, 255, 255, 255, 255, 255, 255, 255>>

RECURSIVE Or8(_, _, _)
Or8(a, b, k) ==
    IF k = 0 THEN 0
    ELSE (IF a % 2 = 1 \/ b % 2 = 1 THEN 1 ELSE 0) + 2 * Or8(a \div 2, b \div 2, k - 1)

\* a | b on longs
Or64(a, b) ==
    <<Or8(a[1], b[1], 8), Or8(a[2], b[2], 8), Or8(a[3], b[3], 8), Or8(a[4], b[4], 8),
      Or8(a[5], b[5], 8), Or8(a[6], b[6], 8), Or8(a[7], b[7], 8), Or8(a[8], b[8], 8)>>

IsNeg(w) == w[8] >= 128

\* bytes k..8 of w * m + carry, the carry coming from the bytes below k
RECURSIVE MulAddFrom(_, _, _, _)
MulAddFrom(w, m, carry, k) ==
    IF k > 8 THEN << >>
    ELSE <<(w[k] * m + carry) % 256>>
         \o MulAddFrom(w, m, (w[k] * m + carry) \div 256, k + 1)

\* w * m + add, wrapped to 64 bits
MulAdd(w, m, add) == MulAddFrom(w, m, add, 1)

\* -w, two's complement
Negate(w) ==
    MulAdd(<<255 - w[1], 255 - w[2], 255 - w[3], 255 - w[4],
             255 - w[5], 255 - w[6], 255 - w[7], 255 - w[8]>>, 1, 1)

\* long division by 10 from byte k down: q is the quotient's bytes 1..k, r the
\* remainder; rem is the remainder of the bytes above k
DivCons(rest, qk) == [q |-> Append(rest.q, qk), r |-> rest.r]
RECURSIVE DivMod10(_, _, _)
DivMod10(w, k, rem) ==
    IF k = 0 THEN [q |-> << >>, r |-> rem]
    ELSE DivCons(DivMod10(w, k - 1, (rem * 256 + w[k]) % 10), (rem * 256 + w[k]) \div 10)

\* the decimal digits of w, w read as unsigned; none for 0
RECURSIVE UDigits(_)
RECURSIVE UDigitsOf(_)
UDigitsOf(d) == UDigits(d.q) \o <<48 + d.r>>
UDigits(w) == IF w = W0 THEN << >> ELSE UDigitsOf(DivMod10(w, 8, 0))

\* printf("%lu", w)
FmtLu(w) == IF w = W0 THEN <<48>> ELSE UDigits(w)

\* printf("%ld", w)
FmtLd(w) == IF IsNeg(w) THEN <<45>> \o FmtLu(Negate(w)) ELSE FmtLu(w)

RECURSIVE NatDigits(_)
NatDigits(n) == IF n = 0 THEN << >> ELSE NatDigits(n \div 10) \o <<48 + (n % 10)>>

\* printf of a long or an int that is not negative
FmtNat(n) == IF n = 0 THEN <<48>> ELSE NatDigits(n)

\* the int c << (8 * m) for a char c and m < 4, as 4 bytes
IntBytes(c, m) ==
    LET ext == IF c < 0 THEN 255 ELSE 0
    IN  CASE m = 0 -> <<c % 256, ext, ext, ext>>
          [] m = 1 -> <<0, c % 256, ext, ext>>
          [] m = 2 -> <<0, 0, c % 256, ext>>
          [] m = 3 -> <<0, 0, 0, c % 256>>

\* (long) of an int: sign extension
SignExtend(ib) ==
    LET ext == IF ib[4] >= 128 THEN 255 ELSE 0
    IN  <<ib[1], ib[2], ib[3], ib[4], ext, ext, ext, ext>>

\* (long)(c << s) for a char c: c is promoted to a 32-bit int and shifted
\* as an int, then sign-extended.  For s >= 32 the shift is undefined: the
\* build either masks the count to 5 bits or yields 0.
IntShl(c, s, b) ==
    IF s >= 32 /\ b = "zero" THEN W0
    ELSE SignExtend(IntBytes(c, (s % 32) \div 8))

-----------------------------------------------------------------------------
(* Lexical primitives *)

RECURSIVE whitespace(_)
whitespace(f) ==
    LET g == fgetc(f)
        c == ToChar(g.c)
    IN  IF c = EOF THEN g.in
        ELSE IF ~isspace(c) THEN ungetc(c, g.in)
        ELSE whitespace(g.in)

RECURSIVE identifier_loop(_, _)
identifier_loop(f, buf) ==
    LET g == fgetc(f)
        c == ToChar(g.c)
    IN  IF c = EOF THEN [in |-> g.in, buffer |-> buf, read |-> Len(buf)]
        ELSE IF (Len(buf) = 0 /\ ~isalpha(c)) \/ ~isalnum(c)
             THEN [in |-> ungetc(c, g.in), buffer |-> buf, read |-> Len(buf)]
        ELSE identifier_loop(g.in, Append(buf, c))

identifier(f) == identifier_loop(whitespace(f), << >>)

\* one turn of the loop of number() on s = [in, read, num, ret]: ret is
\* "" while the loop runs, "num" after `return num` in the loop, "eof" when
\* fgetc returned EOF
number_turn(s) ==
    LET g == fgetc(s.in)
        c == ToChar(g.c)
    IN  IF c = EOF THEN [s EXCEPT !.in = g.in, !.ret = "eof"]
        ELSE IF ~isdigit(c) THEN [s EXCEPT !.in = ungetc(c, g.in), !.ret = "num"]
        ELSE [in |-> g.in, read |-> s.read + 1, num |-> MulAdd(s.num, 10, c - CH_0),
              ret |-> ""]

RECURSIVE number_loop(_)
number_loop(s) == IF s.ret # "" THEN s ELSE number_loop(number_turn(s))

number_return(s) ==
    [in |-> s.in, num |-> IF s.ret = "eof" /\ s.read = 0 THEN WAllOnes ELSE s.num]

number(f) ==
    number_return(number_loop([in |-> whitespace(f), read |-> 0, num |-> W0, ret |-> ""]))

\* the escape selectors of the switch in character(), and what c becomes
EscapeSelectors == {CH_0, CH_e, LPAREN, RPAREN, STAR, QUOTE, DQUOTE, CH_t, CH_n}
escape(c2) ==
    CASE c2 = CH_0 \/ c2 = CH_e -> 0
      [] c2 = CH_t -> TAB
      [] c2 = CH_n -> NEWLINE
      [] OTHER -> c2

RECURSIVE character_loop(_, _, _, _, _, _)

\* value |= c << (i * 8), and the next turn
character_or(ws, b, f, i, c, value) ==
    character_loop(ws, b, f, i + 1, c, Or64(value, IntShl(c, i * 8, b)))

\* if(c == '*') ... of a turn, g being what the turn has read so far: its c
\* is the c of the test
character_escape(ws, b, i, value, g, g2) ==
    IF ToChar(g.c) # STAR THEN character_or(ws, b, g.in, i, ToChar(g.c), value)
    ELSE IF ToChar(g2.c) \notin EscapeSelectors
    THEN [in |-> g2.in, value |-> value, err |-> "undefined escape character"]
    ELSE character_or(ws, b, g2.in, i, escape(ToChar(g2.c)), value)

\* if(c != '*' && (c = fgetc(in)) == '\'') return value; of a turn
character_turn(ws, b, i, c, value, g) ==
    IF c # STAR /\ ToChar(g.c) = QUOTE THEN [in |-> g.in, value |-> value, err |-> ""]
    ELSE character_escape(ws, b, i, value, g, fgetc(g.in))

\* the byte that must close the literal after word_size turns
character_close(value, g) ==
    [in |-> g.in, value |-> value,
     err |-> IF g.c # QUOTE THEN "unclosed char literal" ELSE ""]

\* the loop of character(): i is the index, c the char the previous turn left
character_loop(ws, b, f, i, c, value) ==
    IF i >= ws THEN character_close(value, fgetc(f))
    ELSE character_turn(ws, b, i, c, value,
                        IF c # STAR THEN fgetc(f) ELSE [c |-> c, in |-> f])

character(a, b, f) == character_loop(a.word_size, b, f, 0, 0, W0)

\* the bytes of the keyword the lookahead matches
ElseKw == <<101, 108, 115, 101>>

\* the && chain of the lookahead: each byte read is stored in buffer[] as a
\* char, and reading stops at the first byte that does not match
RECURSIVE else_match(_, _)
else_match(f, buf) ==
    LET g == fgetc(f)
        c == ToChar(g.c)
        buf1 == Append(buf, c)
    IN  IF Len(buf1) <= 4
        THEN IF c = ElseKw[Len(buf1)] THEN else_match(g.in, buf1)
             ELSE [matched |-> FALSE, in |-> g.in, buffer |-> buf1]
        ELSE [matched |-> ~isalnum(c), in |-> g.in, buffer |-> buf1]

\* for(i = 4; i >= 0; i--) if(buffer[i]) ungetc(buffer[i], in);
\* the slots not read still hold the 0 of the memset
RECURSIVE else_unget(_, _, _)
else_unget(f, buf, i) ==
    IF i < 0 THEN f
    ELSE else_unget(IF i + 1 <= Len(buf) /\ buf[i + 1] # 0
                    THEN ungetc(buf[i + 1], f) ELSE f,
                    buf, i - 1)

else_result(m) ==
    IF m.matched THEN [matched |-> TRUE, in |-> m.in]
    ELSE [matched |-> FALSE, in |-> else_unget(m.in, m.buffer, 4)]

\* the attempt to read `else` after the then-branch of an if
else_lookahead(f) == else_result(else_match(whitespace(f), << >>))

-----------------------------------------------------------------------------
(* The emitted assembly and the parse state *)

\* one line written by fprintf: its format and the text of its arguments
L(fmt, a) == [fmt |-> fmt, args |-> a]

\* strregister(RAX)
RAX == <<37, 114, 97, 120>>

\* The state a producer works on: the input FILE `in`, the output written so
\* far `out`, the static `stmt_id`, the case list `cases` the caller passed,
\* and `err`, the message of the fatal error that ended the process ("" while
\* it runs).  Once the process has exited nothing more happens: every step
\* below leaves a state with an error as it is.
Fatal(p, f, msg) == IF p.err # "" THEN p ELSE [p EXCEPT !.in = f, !.err = msg]
Emit(p, lines) == IF p.err # "" THEN p ELSE [p EXCEPT !.out = @ \o lines]
At(p, f) == IF p.err # "" THEN p ELSE [p EXCEPT !.in = f]
Ws(p) == At(p, whitespace(p.in))
WithCases(p, list) == [p EXCEPT !.cases = list]

\* list_push(list, item)
list_push(list, item) == Append(list, item)

kw_goto == <<103, 111, 116, 111>>
kw_return == <<114, 101, 116, 117, 114, 110>>
kw_if == <<105, 102>>
kw_while == <<119, 104, 105, 108, 101>>
kw_switch == <<115, 119, 105, 116, 99, 104>>
kw_case == <<99, 97, 115, 101>>

-----------------------------------------------------------------------------
(* Expressions and statements *)

\* the mov or xor that loads the constant v
load(reg, v) ==
    IF v # W0 THEN <<L("  mov $%lu, %s", <<FmtLu(v), reg>>)>>
    ELSE <<L("  xor %s, %s", <<reg, reg>>)>>

\* what number() returned, in the shape of what character() returns
Const(n) == [in |-> n.in, value |-> n.num, err |-> ""]

\* the end of expression(), r being the constant read
expression_value(p, reg, r) ==
    IF r.err # "" THEN Fatal(p, r.in, r.err) ELSE Emit(At(p, r.in), load(reg, r.value))

\* switch(c = fgetc(in)) of expression()
expression_c(a, b, reg, p, g) ==
    CASE ToChar(g.c) = QUOTE -> expression_value(p, reg, character(a, b, g.in))
      [] ToChar(g.c) = EOF -> Fatal(p, g.in, "unexpected end of file, expect expression")
      [] isdigit(ToChar(g.c)) ->
            expression_value(p, reg, Const(number(ungetc(ToChar(g.c), g.in))))
      [] OTHER -> Fatal(p, g.in, "unexpected character, expect expression")

expression(a, b, reg, p) ==
    IF p.err # "" THEN p ELSE expression_c(a, b, reg, p, fgetc(whitespace(p.in)))

\* the dispatch table of a switch: one cmp / je pair per collected value
RECURSIVE dispatch_table(_, _, _)
dispatch_table(tid, data, i) ==
    IF i > Len(data) THEN << >>
    ELSE <<L("  cmp $%ld, %rax", <<FmtLd(data[i])>>),
           L("  je .L.case.%lu.%lu", <<tid, FmtLu(data[i])>>)>>
         \o dispatch_table(tid, data, i + 1)

\* ASSERT_CHAR: the process goes on only if the next byte is `expect`
AssertGot(p, expect, msg, g) ==
    IF g.c # expect THEN Fatal(p, g.in, msg) ELSE At(p, g.in)
AssertChar(p, expect, msg) ==
    IF p.err # "" THEN p ELSE AssertGot(p, expect, msg, fgetc(p.in))

\* the constant of a case statement: a character literal or a number
case_constant(a, b, g) ==
    CASE ToChar(g.c) = QUOTE -> character(a, b, g.in)
      [] isdigit(ToChar(g.c)) -> Const(number(ungetc(ToChar(g.c), g.in)))
      [] OTHER -> [in |-> g.in, value |-> W0,
                   err |-> "unexpected character, expect constant after case"]

RECURSIVE statement(_, _, _, _, _)
RECURSIVE block_loop(_, _, _, _, _)

\* goto: lab is what identifier() read after the keyword
stmt_goto(p, lab) ==
    IF lab.read = 0 THEN Fatal(p, lab.in, "expect label name after goto")
    ELSE AssertChar(Emit(At(p, whitespace(lab.in)),
                         <<L("  jmp .L.label.%s", <<lab.buffer>>)>>),
                    SEMICOLON, "expect ; after goto statement")

\* return: g is the byte read after the keyword
stmt_return(a, b, p, fn_ident, g) ==
    IF ToChar(g.c) = SEMICOLON
    THEN Emit(At(p, g.in), <<L("  jmp .L.return.%s", <<fn_ident>>)>>)
    ELSE IF ToChar(g.c) # LPAREN THEN Fatal(p, g.in, "expect ( or ; after return")
    ELSE Emit(AssertChar(
                  Ws(AssertChar(Ws(expression(a, b, RAX, At(p, g.in))),
                                RPAREN, "expect ) after return statement")),
                  SEMICOLON, "expect ; after return statement"),
              <<L("  jmp .L.return.%s", <<fn_ident>>)>>)

\* the else part of an if statement, p being the state after `.L.else.<id>:`
\* and la what the lookahead found
stmt_else(a, b, p, fn_ident, la) ==
    IF la.matched THEN statement(a, b, At(p, la.in), fn_ident, -1) ELSE At(p, la.in)
else_branch(a, b, p, fn_ident) ==
    IF p.err # "" THEN p ELSE stmt_else(a, b, p, fn_ident, else_lookahead(p.in))

\* if: p is the state after id = stmt_id++, tid the text of id
stmt_if(a, b, p, fn_ident, tid) ==
    LET p1 == AssertChar(p, LPAREN, "expect ( after if")
        p2 == Emit(expression(a, b, RAX, p1),
                   <<L("  cmp $0, %rax", << >>), L("  je .L.else.%lu", <<tid>>)>>)
        p3 == AssertChar(Ws(p2), RPAREN, "expect ) after condition")
        p4 == Emit(statement(a, b, WithCases(p3, << >>), fn_ident, -1),
                   <<L("  jmp .L.end.%lu", <<tid>>), L(".L.else.%lu:", <<tid>>)>>)
        p5 == Emit(else_branch(a, b, p4, fn_ident), <<L(".L.end.%lu:", <<tid>>)>>)
    IN  WithCases(p5, p.cases)

\* while: p is the state after id = stmt_id++, tid the text of id
stmt_while(a, b, p, fn_ident, tid) ==
    LET p1 == AssertChar(p, LPAREN, "expect ( after while")
        p2 == Emit(expression(a, b, RAX, p1),
                   <<L(".L.start.%lu:", <<tid>>),
                     L("  cmp $0, %rax", << >>),
                     L("  je .L.end.%lu", <<tid>>)>>)
        p3 == AssertChar(Ws(p2), RPAREN, "expect ) after condition")
        p4 == Emit(statement(a, b, WithCases(p3, << >>), fn_ident, -1),
                   <<L("  jmp .L.start.%lu", <<tid>>), L(".L.end.%lu:", <<tid>>)>>)
    IN  WithCases(p4, p.cases)

\* the end of a switch statement, p being the state its body left
switch_end(p, tid) ==
    Emit(p, <<L("  jmp .L.end.%ld", <<tid>>), L(".L.cmp.%ld:", <<tid>>)>>
            \o dispatch_table(tid, p.cases, 1)
            \o <<L(".L.end.%ld:", <<tid>>)>>)

\* a switch whose body appends to the case list of the switch around it
stmt_switch_shared(a, b, p, fn_ident, id, tid) ==
    LET p1 == Emit(expression(a, b, RAX, p),
                   <<L("  jmp .L.cmp.%ld", <<tid>>), L(".L.stmts.%ld:", <<tid>>)>>)
    IN  switch_end(statement(a, b, p1, fn_ident, id), tid)

\* switch: p is the state after id = stmt_id++, tid the text of id
stmt_switch(a, b, p, fn_ident, id, tid) ==
    LET p1 == Emit(expression(a, b, RAX, p),
                   <<L("  jmp .L.cmp.%ld", <<tid>>), L(".L.stmts.%ld:", <<tid>>)>>)
        p2 == switch_end(statement(a, b, WithCases(p1, << >>), fn_ident, id), tid)
    IN  WithCases(p2, p.cases)

\* list_push(cases, value) and the label of the case
case_label(p, switch_id, value) ==
    Emit(WithCases(p, list_push(p.cases, value)),
         <<L(".L.case.%ld.%ld:", <<FmtNat(switch_id), FmtLd(value)>>)>>)

\* case: p is the state after id = stmt_id++, r the constant read
stmt_case(a, b, p, fn_ident, switch_id, r) ==
    IF switch_id < 0
    THEN Fatal(p, p.in, "unexpected case outside of switch statements")
    ELSE IF r.err # "" THEN Fatal(p, r.in, r.err)
    ELSE IF r.value = WAllOnes
    THEN Fatal(p, r.in, "unexpected end of file, expect constant after case")
    ELSE statement(a, b,
             case_label(AssertChar(At(p, whitespace(r.in)), COLON, "expect : after case"),
                        switch_id, r.value),
             fn_ident, switch_id)

\* any other word: a label if a colon follows; g is the byte read after it
stmt_label(a, b, p, fn_ident, switch_id, buf, g) ==
    IF ToChar(g.c) = COLON
    THEN statement(a, b, Emit(At(p, g.in), <<L(".L.label.%s:", <<buf>>)>>),
                   fn_ident, switch_id)
    ELSE Fatal(p, g.in, "unexpected character, expect expression")

\* id = stmt_id++
take_id(p) == [p EXCEPT !.stmt_id = @ + 1]

\* the strcmp chain on the word read: p is the state after the white space
\* that follows the word
stmt_word(a, b, p, fn_ident, switch_id, buf) ==
    CASE buf = kw_goto -> stmt_goto(p, identifier(p.in))
      [] buf = kw_return -> stmt_return(a, b, p, fn_ident, fgetc(p.in))
      [] buf = kw_if -> stmt_if(a, b, take_id(p), fn_ident, FmtNat(p.stmt_id))
      [] buf = kw_while -> stmt_while(a, b, take_id(p), fn_ident, FmtNat(p.stmt_id))
      [] buf = kw_switch ->
            stmt_switch(a, b, take_id(p), fn_ident, p.stmt_id, FmtNat(p.stmt_id))
      [] buf = kw_case ->
            stmt_case(a, b, take_id(p), fn_ident, switch_id,
                      case_constant(a, b, fgetc(p.in)))
      [] OTHER -> stmt_label(a, b, p, fn_ident, switch_id, buf, fgetc(p.in))

\* identifier(in, buffer, BUFSIZ); whitespace(in);
stmt_ident(a, b, p, fn_ident, switch_id, idt) ==
    stmt_word(a, b, At(p, whitespace(idt.in)), fn_ident, switch_id, idt.buffer)

\* switch(c = fgetc(in)) of statement()
statement_c(a, b, p, fn_ident, switch_id, g) ==
    CASE ToChar(g.c) = LBRACE ->
            block_loop(a, b, At(p, whitespace(g.in)), fn_ident, switch_id)
      [] ToChar(g.c) = SEMICOLON -> At(p, g.in)
      [] ToChar(g.c) = EOF -> Fatal(p, g.in, "unexpected end of file, expect statement")
      [] isalpha(ToChar(g.c)) ->
            stmt_ident(a, b, p, fn_ident, switch_id,
                       identifier(ungetc(ToChar(g.c), g.in)))
      [] OTHER -> Fatal(p, g.in, "unexpected character, expect statement")

\* statement(args, in, out, fn_ident, switch_id, cases): p.cases is `cases`
statement(a, b, p, fn_ident, switch_id) ==
    IF p.err # "" THEN p
    ELSE statement_c(a, b, p, fn_ident, switch_id, fgetc(whitespace(p.in)))

\* one turn of the loop of a block: ungetc(c, in); statement(...); whitespace(in);
block_turn(a, b, p, fn_ident, switch_id, g) ==
    IF ToChar(g.c) = RBRACE THEN At(p, g.in)
    ELSE block_loop(a, b,
             Ws(statement(a, b, At(p, ungetc(ToChar(g.c), g.in)), fn_ident, switch_id)),
             fn_ident, switch_id)

\* while((c = fgetc(in)) != '}') ...
block_loop(a, b, p, fn_ident, switch_id) ==
    IF p.err # "" THEN p ELSE block_turn(a, b, p, fn_ident, switch_id, fgetc(p.in))

-----------------------------------------------------------------------------
(* Declarations *)

\* a function that starts the statement ids at 0 again
function_resets(a, b, p, ident) ==
    LET p1 == AssertChar(
                  Emit(p, <<L(".text", << >>),
                            L(".type %s, @function", <<ident>>),
                            L("%s:", <<ident>>)>>),
                  RPAREN, "expect ) after function declaration")
        p2 == statement(a, b,
                  WithCases(Emit([p1 EXCEPT !.stmt_id = 0],
                                 <<L("  push %rbp", << >>),
                                   L("  mov %rsp, %rbp", << >>)>>), << >>),
                  ident, -1)
    IN  Emit(p2, <<L(".L.return.%s:", <<ident>>),
                   L("  mov %rbp, %rsp", << >>),
                   L("  pop %rbp", << >>),
                   L("  ret", << >>)>>)

\* function(args, in, out, identifier): the header, the body, the return label
function(a, b, p, ident) ==
    LET p1 == AssertChar(
                  Emit(p, <<L(".text", << >>),
                            L(".type %s, @function", <<ident>>),
                            L("%s:", <<ident>>)>>),
                  RPAREN, "expect ) after function declaration")
        p2 == statement(a, b,
                  WithCases(Emit(p1, <<L("  push %rbp", << >>),
                                       L("  mov %rsp, %rbp", << >>)>>), << >>),
                  ident, -1)
    IN  Emit(p2, <<L(".L.return.%s:", <<ident>>),
                   L("  mov %rbp, %rsp", << >>),
                   L("  pop %rbp", << >>),
                   L("  ret", << >>)>>)

\* the .long of a constant ival, r being the constant read
ival_value(p, r) ==
    IF r.err # "" THEN Fatal(p, r.in, r.err)
    ELSE IF r.value = WAllOnes THEN Fatal(p, r.in, "unexpected end of file, expect ival")
    ELSE Emit(At(p, r.in), <<L("  .long %lu", <<FmtLu(r.value)>>)>>)

\* the .long of a name; identifier() never returns EOF
ival_name(p, idt) == Emit(At(p, idt.in), <<L("  .long %s", <<idt.buffer>>)>>)

ival_c(a, b, p, g) ==
    CASE isalpha(ToChar(g.c)) -> ival_name(p, identifier(ungetc(ToChar(g.c), g.in)))
      [] ToChar(g.c) = QUOTE -> ival_value(p, character(a, b, g.in))
      [] OTHER -> ival_value(p, Const(number(ungetc(ToChar(g.c), g.in))))

ival(a, b, p) == IF p.err # "" THEN p ELSE ival_c(a, b, p, fgetc(p.in))

RECURSIVE ival_list(_, _, _)

\* the test of the do-while loop and the ; after it, g being the byte read
ival_next(a, b, p, g) ==
    IF ToChar(g.c) = COMMA THEN ival_list(a, b, At(p, g.in))
    ELSE IF ToChar(g.c) # SEMICOLON THEN Fatal(p, g.in, "expect ; at end of declaration")
    ELSE At(p, g.in)

ival_tail(a, b, p) == IF p.err # "" THEN p ELSE ival_next(a, b, p, fgetc(p.in))

\* do { whitespace; ival; whitespace } while((c = fgetc(in)) == ','); then c must be ;
ival_list(a, b, p) == ival_tail(a, b, Ws(ival(a, b, Ws(p))))

object_header(a, ident) ==
    <<L(".data", << >>), L(".type %s, @object", <<ident>>),
      L(".align %d", <<FmtNat(a.word_size)>>), L("%s:", <<ident>>)>>

global_c(a, b, p, g) ==
    IF ToChar(g.c) # SEMICOLON THEN ival_list(a, b, At(p, ungetc(ToChar(g.c), g.in)))
    ELSE Emit(At(p, g.in), <<L("  .zero %d", <<FmtNat(a.word_size)>>)>>)

global_body(a, b, p) == global_c(a, b, p, fgetc(p.in))

global(a, b, p, ident) == global_body(a, b, Emit(p, object_header(a, ident)))

\* the initializers of a vector, or the .zero that reserves it; g is the byte
\* read after the header
vector_c(a, b, p, size, g) ==
    IF ToChar(g.c) # SEMICOLON THEN ival_list(a, b, At(p, ungetc(ToChar(g.c), g.in)))
    ELSE IF size # W0 THEN Emit(At(p, g.in), <<L("  .zero %ld", <<FmtLd(size)>>)>>)
    ELSE At(p, g.in)

vector_init(a, b, p, size) == vector_c(a, b, p, size, fgetc(whitespace(p.in)))

\* the header of the vector; num is the size read, 0 for []
vector_body(a, b, p, ident, num) ==
    vector_init(a, b, Emit(p, object_header(a, ident)), MulAdd(num, a.word_size, 0))

\* if(fgetc(in) != ']') after the size
vector_bracket(a, b, p, ident, num, g) ==
    IF g.c # RBRACKET THEN Fatal(p, g.in, "expect ] after vector size")
    ELSE vector_body(a, b, At(p, g.in), ident, num)

\* num = number(in); if(num == EOF) ...
vector_number(a, b, p, ident, n) ==
    IF n.num = WAllOnes
    THEN Fatal(p, n.in, "unexpected end of file, expect vector size after [")
    ELSE vector_bracket(a, b, p, ident, n.num, fgetc(whitespace(n.in)))

\* if((c = fgetc(in)) != ']')
vector_size(a, b, p, ident, g) ==
    IF ToChar(g.c) = RBRACKET THEN vector_body(a, b, At(p, g.in), ident, W0)
    ELSE vector_number(a, b, p, ident, number(ungetc(ToChar(g.c), g.in)))

vector(a, b, p, ident) == vector_size(a, b, p, ident, fgetc(whitespace(p.in)))

RECURSIVE declarations(_, _, _)

\* switch(c = fgetc(in)) of declarations()
decl_c(a, b, p, ident, g) ==
    CASE ToChar(g.c) = LPAREN -> function(a, b, At(p, g.in), ident)
      [] ToChar(g.c) = LBRACKET -> vector(a, b, At(p, g.in), ident)
      [] ToChar(g.c) = EOF -> Fatal(p, g.in, "unexpected end of file after declaration")
      [] OTHER -> global(a, b, At(p, ungetc(ToChar(g.c), g.in)), ident)

\* one declaration, p being the state after its .globl line
decl_kind(a, b, p, ident) == decl_c(a, b, p, ident, fgetc(whitespace(p.in)))

\* if(fgetc(in) != EOF) after the loop
decl_end(p, e) ==
    IF e.c # EOF THEN Fatal(p, e.in, "expect identifier at top level") ELSE At(p, e.in)

\* while(identifier(in, buffer, BUFSIZ)) ...; idt is what identifier() read
decl_ident(a, b, p, idt) ==
    IF idt.read = 0 THEN decl_end(p, fgetc(idt.in))
    ELSE declarations(a, b,
             decl_kind(a, b, Emit(At(p, idt.in), <<L(".globl %s", <<idt.buffer>>)>>),
                       idt.buffer))

declarations(a, b, p) == IF p.err # "" THEN p ELSE decl_ident(a, b, p, identifier(p.in))

-----------------------------------------------------------------------------
(* The driver: main() and compile() *)

\* how a child process started by subprocess() can end
ChildOutcomes ==
    {[kind |-> k, code |-> 0] : k \in {"fork_failed", "exec_failed", "wait_failed",
                                       "signaled"}}
    \cup {[kind |-> "exited", code |-> s] : s \in 0..MaxExit}

\* WEXITSTATUS(pid_status): bits 8..15 of the status, 0 for a child a signal killed
WEXITSTATUS(o) == IF o.kind = "exited" THEN o.code ELSE 0

\* subprocess(): `exits` when the compiler itself calls exit(1), `ran` when
\* the program was executed, `value` the int it returns.  A child whose
\* execvp fails calls exit(1), which the parent reads as its exit status.
subprocess(o) ==
    CASE o.kind = "fork_failed" -> [exits |-> TRUE, ran |-> FALSE, value |-> 1]
      [] o.kind = "wait_failed" -> [exits |-> TRUE, ran |-> TRUE, value |-> 1]
      [] o.kind = "exec_failed" -> [exits |-> FALSE, ran |-> FALSE, value |-> 1]
      [] OTHER -> [exits |-> FALSE, ran |-> TRUE, value |-> WEXITSTATUS(o)]

A_S == "a.s"
A_O == "a.o"
A_OUT == "a.out"

Options == {"--help", "--version", "-o", "-S", "-c", "-x"}

\* the loop of main() over argv[i..]: returns the arguments and, when main
\* returns inside the loop, its value in `ret` (-1 when the loop ends)
RECURSIVE main_loop(_, _, _)
main_loop(av, i, cargs) ==
    IF i > Len(av) THEN [args |-> cargs, ret |-> -1]
    ELSE IF av[i] \in {"--help", "--version"} THEN [args |-> cargs, ret |-> 0]
    ELSE IF av[i] = "-o"
    THEN main_loop(av, i + 2,
             [cargs EXCEPT !.output_file = IF i + 1 <= Len(av) THEN av[i + 1] ELSE "NULL"])
    ELSE IF av[i] = "-S"
    THEN main_loop(av, i + 1, [cargs EXCEPT !.do_assembling = FALSE, !.do_linking = FALSE])
    ELSE IF av[i] = "-c"
    THEN main_loop(av, i + 1, [cargs EXCEPT !.do_linking = FALSE])
    ELSE IF av[i] \in Options THEN [args |-> cargs, ret |-> 1]
    ELSE main_loop(av, i + 1, [cargs EXCEPT !.input_files = Append(@, av[i])])

\* the name ends in ".b"
EndsInDotB(name) == name \in {"t.b", "u.b", "missing.b"}

RECURSIVE Flatten(_)
Flatten(ss) == IF ss = << >> THEN << >> ELSE Head(ss) \o Flatten(Tail(ss))

\* the bytes of a source file given as a sequence of fragments
Text(prog) == Bytes(Flatten(prog))

\* an entry of the log of what the driver did: the operation and, for a
\* child process, how it ended
Ev(op, o) == [op |-> op, kind |-> o.kind, code |-> o.code]
NoChild == [kind |-> "-", code |-> 0]

\* an assembling step that removes a.s whatever `as` returned
compile_assemble_removes(a, o, d, ev) ==
    LET r == subprocess(o)
        ev1 == IF r.ran THEN Append(ev, Ev("as", o)) ELSE ev
        d1 == IF o.kind = "exited" /\ o.code = 0 THEN d \cup {A_O} ELSE d
    IN  IF ~a.do_assembling THEN [disk |-> d, events |-> ev, ret |-> -1]
        ELSE [disk |-> d1 \ {A_S},
              events |-> Append(ev1, Ev("remove a.s", NoChild)),
              ret |-> IF r.exits \/ r.value # 0 THEN 1 ELSE -1]

\* the assembling step of compile(): what it does to the files and what compile returns
compile_assemble(a, o, d, ev) ==
    LET r == subprocess(o)
        ev1 == IF r.ran THEN Append(ev, Ev("as", o)) ELSE ev
        d1 == IF o.kind = "exited" /\ o.code = 0 THEN d \cup {A_O} ELSE d
    IN  IF ~a.do_assembling THEN [disk |-> d, events |-> ev, ret |-> -1]
        ELSE IF r.exits \/ r.value # 0 THEN [disk |-> d1, events |-> ev1, ret |-> 1]
        ELSE [disk |-> d1 \ {A_S},
              events |-> Append(ev1, Ev("remove a.s", NoChild)), ret |-> -1]

\* the linking step of compile()
compile_link(a, o, d, ev) ==
    LET r == subprocess(o)
        ev1 == IF r.ran THEN Append(ev, Ev("ld", o)) ELSE ev
        d1 == IF o.kind = "exited" /\ o.code = 0 THEN d \cup {a.output_file} ELSE d
    IN  IF ~a.do_linking THEN [disk |-> d, events |-> ev, ret |-> 0]
        ELSE IF r.exits \/ r.value # 0 THEN [disk |-> d1, events |-> ev1, ret |-> 1]
        ELSE [disk |-> d1 \ {A_O},
              events |-> Append(ev1, Ev("remove a.o", NoChild)), ret |-> 0]

-----------------------------------------------------------------------------
(* Unit runs of the lexical functions *)

\* all byte strings over S of length at most n
Strings(S, n) == UNION {[1..k -> S] : k \in 0..n}

\* struct compiler_args as main() sets it up
DefaultArgs ==
    [output_file |-> A_OUT, do_assembling |-> TRUE, do_linking |-> TRUE,
     word_size |-> X86_64_WORD_SIZE, input_files |-> << >>]

Builds == {"mask", "zero"}

PlainBytes == {Ord("a"), Ord("xC8"), Ord("'")}
EscBytes == {Ord("*"), Ord("'"), Ord("a"), Ord("0"), Ord("e"), Ord("("),
             Ord("\""), Ord("t"), Ord("n")}
LitStreams == Strings(PlainBytes, MaxLit) \cup Strings(EscBytes, 4)

LookBytes == {Ord("e"), Ord("l"), Ord("s"), Ord("1"), Ord(";"), Ord(" "), Ord("NUL")}
LookStreams == Strings(LookBytes, MaxLook)

NoResult == [none |-> TRUE]

InitLex ==
    /\ pc \in {"character", "else"}
    /\ in \in IF pc = "character" THEN LitStreams ELSE LookStreams
    /\ build \in IF pc = "character" THEN Builds ELSE {"mask"}
    /\ args = DefaultArgs
    /\ argv = << >>
    /\ fsys = << >>
    /\ file_i = 0
    /\ buffer = << >>
    /\ stmt_id = 0
    /\ disk = {}
    /\ events = << >>
    /\ ret = -1
    /\ result = NoResult

\* a call of character() just after the opening quote
CallCharacter ==
    /\ pc = "character"
    /\ result' = character(args, build, in)
    /\ pc' = "character_returned"
    /\ UNCHANGED <<build, argv, fsys, args, file_i, buffer, stmt_id, disk, events, ret, in>>

\* the else lookahead of an if statement, after its then-branch
CallElse ==
    /\ pc = "else"
    /\ result' = else_lookahead(in)
    /\ pc' = "else_returned"
    /\ UNCHANGED <<build, argv, fsys, args, file_i, buffer, stmt_id, disk, events, ret, in>>

NextLex == CallCharacter \/ CallElse

SpecLex == InitLex /\ [][NextLex]_vars

-----------------------------------------------------------------------------
(* Source programs: a file is a sequence of fragments, a fragment a text *)

Fn_f == <<"f", "(", ")">>
Fn_g == <<"g", "(", ")">>
T_if == <<"i", "f", "(", "1", ")">>
T_while == <<"w", "h", "i", "l", "e", "(", "1", ")">>
T_switch == <<"s", "w", "i", "t", "c", "h", " ", "1", " ">>
T_case == <<"c", "a", "s", "e", " ">>
T_label == <<"a", ":">>
T_else == <<"e", "l", "s", "e">>
T_open == <<"{">>
T_close == <<"}">>
T_null == <<";">>
T_return == <<"r", "e", "t", "u", "r", "n", ";">>
T_goto == <<"g", "o", "t", "o", " ", "a", ";">>

\* case constants: two small numbers and a character with the top bit set
K_1 == <<"1">>
K_2 == <<"2">>
K_hi == <<"'", "x80", "'">>
Case(k) == T_case \o k \o <<":">>

\* a function whose body is a chain of statement prefixes, each enclosing
\* the rest, and a final simple statement
Prefixes == {T_if, T_while, T_switch, Case(K_1), Case(K_2), Case(K_hi), T_label}
Simple == {T_null, T_return, T_goto}
Chains == {<<Fn_f>> \o w \o <<s>> : w \in Strings(Prefixes, MaxNest), s \in Simple}

\* the statements a generated block is made of
I_case1 == Case(K_1) \o T_null
I_case2 == Case(K_2) \o T_return
I_casehi == Case(K_hi) \o T_null
I_blockcase == T_open \o T_label \o Case(K_2) \o T_null \o T_close
I_inner == T_switch \o T_open \o Case(K_2) \o T_null \o Case(K_1) \o T_null \o T_close
I_inner2 == T_switch \o Case(K_1) \o T_switch \o Case(K_2) \o Case(K_2) \o T_null
I_ifelse == T_if \o T_null \o T_else \o <<" ">> \o T_return
I_while == T_while \o T_null
Items == {I_case1, I_case2, I_casehi, I_blockcase, I_inner, I_inner2, I_ifelse,
          I_while, T_null}

\* a function whose body is a block of items, alone or as the body of a switch
Blocks ==
    {<<Fn_f>> \o pre \o <<T_open>> \o its \o <<T_close>> :
        pre \in {<< >>, <<T_switch>>}, its \in Strings(Items, MaxItems)}

\* if (1) ; else s2, with nothing or white space between `else` and s2
ElseSeps == {<< >>, <<" ">>, <<"\n">>}
ElseStmts == {T_null, T_open \o T_close, T_open \o T_null \o T_close, T_return,
              T_label \o T_null}
IfElses ==
    {<<Fn_f, T_open, T_if, T_null, T_else, sep, s2, T_close>> :
        sep \in ElseSeps, s2 \in ElseStmts}

\* if (1) ; followed by something that is not an else
NotElses ==
    {<<Fn_f, T_open, T_if, T_null, x, T_close>> :
        x \in {<< >>, <<"e", ":", ";">>, <<"e", "l", ":", ";">>,
               <<"e", "l", "s", "e", "1", ":", ";">>, <<"NUL">>, T_null}}

\* top-level objects and malformed files
Objects ==
    {<<<<"x", " ", "1", "2", ";">>>>, <<<<"x", " ", "'", "a", "b", "'", ";">>>>,
     <<<<"x", ";">>>>, <<<<"x", "[", "3", "]", ";">>>>,
     <<<<"x", "[", "]", " ", "1", ",", "a", ";">>>>, <<<<"x", " ", "f", ";">>, Fn_f, T_null>>,
     <<<<"x">>>>, <<<<"1">>>>, << >>}

Programs == Chains \cup Blocks \cup IfElses \cup NotElses \cup Objects

\* a file of two functions: an if around a while in f, a while in g
TwoFunctions == <<Fn_f, T_if, T_while, T_null, Fn_g, T_while, T_null>>

\* the second input file of a run with two
Seconds ==
    {<<Fn_f, T_null>>, <<Fn_g, T_label, T_if, T_null>>, <<Fn_g, T_while, T_null>>,
     TwoFunctions}

FlagSets == {<< >>, <<"-S">>, <<"-c">>, <<"-c", "-S">>, <<"-o", "out", "-c">>}

\* the command lines and file systems a run starts from
Runs ==
    {[argv |-> <<"-S", "t.b">>, fsys |-> [n \in {"t.b"} |-> q]] : q \in Programs}
    \cup {[argv |-> fl \o <<"t.b", "n.c", "u.b">>,
           fsys |-> [n \in {"t.b", "n.c", "u.b"} |->
                        IF n = "u.b" THEN q2 ELSE <<Fn_f, T_label, T_while, T_null>>]] :
            fl \in FlagSets, q2 \in Seconds}
    \cup {[argv |-> av, fsys |-> [n \in {"t.b"} |-> <<Fn_f, T_null>>]] :
            av \in {<< >>, <<"--help">>, <<"-x", "t.b">>, <<"missing.b">>, <<"t.b", "-o">>,
                    <<"n.c">>}}

-----------------------------------------------------------------------------
(* The run of the compiler *)

Init ==
    /\ pc = "main"
    /\ build \in Builds
    /\ \E r \in Runs : argv = r.argv /\ fsys = r.fsys
    /\ args = DefaultArgs
    /\ file_i = 0
    /\ buffer = << >>
    /\ stmt_id = 0
    /\ disk = {}
    /\ events = << >>
    /\ ret = -1
    /\ in = << >>
    /\ result = NoResult

\* main(): the options are read, then compile() is entered
Main ==
    /\ pc = "main"
    /\ LET m == main_loop(argv, 1, DefaultArgs)
           r == IF m.ret # -1 THEN m.ret
                ELSE IF Len(m.args.input_files) = 0 THEN 1 ELSE -1
       IN  /\ args' = m.args
           /\ ret' = r
           /\ pc' = IF r # -1 THEN "exit" ELSE "compile"
    /\ UNCHANGED <<build, argv, fsys, file_i, buffer, stmt_id, disk, events, in, result>>

\* compile(): one turn of the loop over the input files
CompileFile ==
    /\ pc = "compile"
    /\ file_i < Len(args.input_files)
    /\ \E name \in {args.input_files[file_i + 1]} :
          IF ~EndsInDotB(name)
          THEN /\ file_i' = file_i + 1
               /\ UNCHANGED <<pc, buffer, stmt_id, events, ret>>
          ELSE IF name \notin DOMAIN fsys
          THEN /\ pc' = "exit"
               /\ ret' = 1
               /\ UNCHANGED <<file_i, buffer, stmt_id, events>>
          ELSE \E r \in {declarations(args, build,
                              [in |-> Text(fsys[name]), out |-> buffer,
                               stmt_id |-> stmt_id, cases |-> << >>, err |-> ""])} :
                 IF r.err # ""
                 THEN /\ pc' = "exit"
                      /\ ret' = 1
                      /\ events' = Append(events, Ev(r.err, NoChild))
                      /\ stmt_id' = r.stmt_id
                      /\ UNCHANGED <<file_i, buffer>>
                 ELSE /\ file_i' = file_i + 1
                      /\ buffer' = r.out
                      /\ stmt_id' = r.stmt_id
                      /\ UNCHANGED <<pc, events, ret>>
    /\ UNCHANGED <<build, argv, fsys, args, disk, in, result>>

\* compile(): the buffer is written to a.s, unless it cannot be opened
WriteAsm ==
    /\ pc = "compile"
    /\ file_i = Len(args.input_files)
    /\ \E opened \in BOOLEAN :
          IF opened
          THEN /\ disk' = disk \cup {A_S}
               /\ events' = Append(events, Ev("write a.s", NoChild))
               /\ pc' = "assemble"
               /\ ret' = ret
          ELSE /\ pc' = "exit"
               /\ ret' = 1
               /\ UNCHANGED <<disk, events>>
    /\ UNCHANGED <<build, argv, fsys, args, file_i, buffer, stmt_id, in, result>>

\* compile(): if(args->do_assembling) { ... }
Assemble ==
    /\ pc = "assemble"
    /\ \E o \in ChildOutcomes :
          LET r == compile_assemble(args, o, disk, events)
          IN  /\ disk' = r.disk
              /\ events' = r.events
              /\ ret' = r.ret
              /\ pc' = IF r.ret # -1 THEN "exit" ELSE "link"
    /\ UNCHANGED <<build, argv, fsys, args, file_i, buffer, stmt_id, in, result>>

\* compile(): if(args->do_linking) { ... } return 0;
Link ==
    /\ pc = "link"
    /\ \E o \in ChildOutcomes :
          LET r == compile_link(args, o, disk, events)
          IN  /\ disk' = r.disk
              /\ events' = r.events
              /\ ret' = r.ret
              /\ pc' = "exit"
    /\ UNCHANGED <<build, argv, fsys, args, file_i, buffer, stmt_id, in, result>>

Next == Main \/ CompileFile \/ WriteAsm \/ Assemble \/ Link

Spec == Init /\ [][Next]_vars

-----------------------------------------------------------------------------
(* Claims about the lexical functions, under SpecLex *)

IsPlain(b) == b # Ord("'") /\ b # Ord("*")

\* the number of bytes of f before its first closing quote, when they are
\* all unescaped bytes; -1 when f has no such prefix
PlainLen(f) ==
    IF \E n \in 0..(Len(f) - 1) :
          f[n + 1] = Ord("'") /\ \A k \in 1..n : IsPlain(f[k])
    THEN CHOOSE n \in 0..(Len(f) - 1) :
          f[n + 1] = Ord("'") /\ \A k \in 1..n : IsPlain(f[k])
    ELSE -1

\* the word whose byte i is f[i+1] for i < n and whose other bytes are 0
Packed(f, n) == [k \in ByteIdx |-> IF k <= n THEN f[k] ELSE 0]

\* C4: a literal of n <= 8 unescaped bytes and a closing quote yields the word
\* that holds byte i in bits [8i, 8i+7] and 0 elsewhere, and the reader stops
\* right after the quote; more than 8 bytes before the quote is a fatal error.
C4_LittleEndianPacking ==
    pc = "character_returned" =>
        LET n == PlainLen(in)
        IN  /\ (n >= 0 /\ n <= args.word_size) =>
                  /\ result.err = ""
                  /\ result.value = Packed(in, n)
                  /\ result.in = SubSeq(in, n + 2, Len(in))
            /\ (n > args.word_size) => result.err # ""

\* the byte an escape selector decodes to (section 4.1 of the specification)
Decoded(x) ==
    CASE x \in {Ord("0"), Ord("e")} -> 0
      [] x = Ord("t") -> 9
      [] x = Ord("n") -> 10
      [] OTHER -> x

Selectors == {Ord("0"), Ord("e"), Ord("("), Ord(")"), Ord("*"), Ord("'"),
              Ord("\""), Ord("t"), Ord("n")}

\* C9: an escape *X consumes two bytes and contributes one decoded byte; the
\* byte after it is an ordinary literal byte: a closing quote ends the
\* literal, any other unescaped byte is packed as itself.
C9_EscapeThenOrdinaryByte ==
    (pc = "character_returned" /\ Len(in) >= 3
        /\ in[1] = Ord("*") /\ in[2] \in Selectors) =>
        /\ in[3] = Ord("'") =>
              /\ result.err = ""
              /\ result.value = Packed(<<Decoded(in[2])>>, 1)
              /\ result.in = SubSeq(in, 4, Len(in))
        /\ (IsPlain(in[3]) /\ Len(in) >= 4 /\ in[4] = Ord("'")) =>
              /\ result.err = ""
              /\ result.value = Packed(<<Decoded(in[2]), in[3]>>, 2)
              /\ result.in = SubSeq(in, 5, Len(in))

\* the bytes at the head of f are `else` and then no alphanumeric byte
StartsWithElse(f) ==
    /\ Len(f) >= 4
    /\ SubSeq(f, 1, 4) = ElseKw
    /\ (Len(f) >= 5 => ~isalnum(f[5]))

\* C6: when what follows the then-branch (after whitespace) is not `else`
\* and a non-alphanumeric byte, the attempt leaves the input as it was and
\* reports no else-branch.
C6_ElseMismatchRestoresInput ==
    (pc = "else_returned" /\ ~StartsWithElse(whitespace(in))) =>
        /\ ~result.matched
        /\ result.in = whitespace(in)

-----------------------------------------------------------------------------
(* Claims about the emitted assembly and the driver, under Spec *)

\* every input file has been translated and no fatal error ended the run
Compiled == pc = "compile" /\ file_i = Len(args.input_files)

\* the first input file has been taken by the loop of compile()
FirstFileDone == file_i >= 1 \/ (pc = "exit" /\ events # << >>)

CaseFatal ==
    \E i \in 1..Len(events) :
        events[i].op = "unexpected case outside of switch statements"

\* the kind of label a line defines, "" for a line that defines none; the
\* text of the label is its kind and its arguments
LabelKind(fmt) ==
    CASE fmt = "%s:" -> "name"
      [] fmt = ".L.else.%lu:" -> ".L.else"
      [] fmt = ".L.end.%lu:" \/ fmt = ".L.end.%ld:" -> ".L.end"
      [] fmt = ".L.start.%lu:" -> ".L.start"
      [] fmt = ".L.cmp.%ld:" -> ".L.cmp"
      [] fmt = ".L.stmts.%ld:" -> ".L.stmts"
      [] fmt = ".L.case.%ld.%ld:" -> ".L.case"
      [] fmt = ".L.label.%s:" -> ".L.label"
      [] fmt = ".L.return.%s:" -> ".L.return"
      [] OTHER -> ""
LabelText(l) == <<LabelKind(l.fmt), l.args>>

\* C1: in the assembly of an accepted input no two label definitions are
\* textually identical (id-based labels, case labels, user labels, return
\* labels).
C1_LabelsUnique ==
    Compiled =>
        \A i, j \in 1..Len(buffer) :
            (i < j /\ LabelKind(buffer[i].fmt) # "") =>
                LabelText(buffer[i]) # LabelText(buffer[j])

\* C3: the text of every case label is the text of a jump target of a
\* dispatch table and the other way round: `.L.case.<id>.<K>:` at the case
\* and `je .L.case.<id>.<K>` in the table are the same characters.
CaseLabels ==
    {buffer[i].args : i \in {k \in 1..Len(buffer) : buffer[k].fmt = ".L.case.%ld.%ld:"}}
JumpTargets ==
    {buffer[i].args : i \in {k \in 1..Len(buffer) : buffer[k].fmt = "  je .L.case.%lu.%lu"}}
C3_CaseLabelIsJumpTarget == Compiled => CaseLabels = JumpTargets

\* the run translates the one file t.b, a function whose body is a chain
ChainRun == argv = <<"-S", "t.b">> /\ fsys["t.b"] \in Chains

IsCasePrefix(x) == x \in {Case(K_1), Case(K_2), Case(K_hi)}

\* some case of the chain q has no switch before it, that is around it
OrphanCase(q) ==
    \E i \in 2..(Len(q) - 1) :
        IsCasePrefix(q[i]) /\ \A j \in 2..(i - 1) : q[j] # T_switch

\* C5: a case is the fatal error "unexpected case outside of switch
\* statements" if and only if no switch encloses it; inside a switch body it
\* is accepted also under an if, a while or a label.
C5_CaseFatalIffNoSwitch ==
    (ChainRun /\ FirstFileDone) => (CaseFatal <=> OrphanCase(fsys["t.b"]))

\* C8: the label .L.start.<id>: of a while comes before the code of its
\* condition: the lines after it are the load of the constant into %rax,
\* `cmp $0, %rax` and `je .L.end.<id>`.
C8_StartPrecedesCondition ==
    Compiled =>
        \A i \in 1..Len(buffer) :
            buffer[i].fmt = ".L.start.%lu:" =>
                /\ i + 3 <= Len(buffer)
                /\ buffer[i + 1].fmt \in {"  mov $%lu, %s", "  xor %s, %s"}
                /\ buffer[i + 2] = L("  cmp $0, %rax", << >>)
                /\ buffer[i + 3] = L("  je .L.end.%lu", buffer[i].args)

\* the run translates the one file t.b = f(){if(1);else<sep><s2>}
IfElseRun == argv = <<"-S", "t.b">> /\ fsys["t.b"] \in IfElses

\* the assembly of the statement s2 alone, as the statement after the if
\* whose id is 0
CodeOf(s2) ==
    statement(args, build,
              [in |-> Text(<<s2>>), out |-> << >>, stmt_id |-> 1, cases |-> << >>,
               err |-> ""],
              Bytes(<<"f">>), -1).out

\* the index of the one line of the buffer whose format is fmt
LineOf(fmt) == CHOOSE i \in 1..Len(buffer) : buffer[i].fmt = fmt

\* C10: when `else` and a non-alphanumeric byte follow the then-branch, the
\* lines between .L.else.<id>: and .L.end.<id>: are the code of the
\* statement s2 that starts right after `else`, with or without white space
\* in between, and parsing resumes after s2.
C10_ElseBranchIsS2 ==
    (IfElseRun /\ FirstFileDone
        /\ StartsWithElse(Text(SubSeq(fsys["t.b"], 5, 8)))) =>
        /\ file_i = 1
        /\ SubSeq(buffer, LineOf(".L.else.%lu:") + 1, LineOf(".L.end.%lu:") - 1)
              = CodeOf(fsys["t.b"][7])
        /\ buffer[LineOf(".L.end.%lu:") + 1].fmt = ".L.return.%s:"

\* the constant a case prefix was written with
ConstOf(x) == CHOOSE k \in {K_1, K_2, K_hi} : x = Case(k)

\* the indices 1..n in order
Indices(n) == [i \in 1..n |-> i]

\* the case lists of the switches of a chain, in source order: every prefix
\* encloses the rest, so a case belongs to the last switch before it
ChainOwned(q) ==
    LET sw == SelectSeq(Indices(Len(q)), LAMBDA i : q[i] = T_switch)
    IN  [k \in 1..Len(sw) |->
            LET hi == IF k < Len(sw) THEN sw[k + 1] ELSE Len(q) + 1
                cs == SelectSeq(Indices(Len(q)),
                                LAMBDA j : j > sw[k] /\ j < hi /\ IsCasePrefix(q[j]))
            IN  [m \in 1..Len(cs) |-> ConstOf(q[cs[m]])]]

\* the cases an item of a block gives to the switch around the block
OuterCases(it) ==
    CASE it = I_case1 -> <<K_1>>
      [] it = I_case2 -> <<K_2>>
      [] it = I_casehi -> <<K_hi>>
      [] it = I_blockcase -> <<K_2>>
      [] OTHER -> << >>

\* the case lists of the switches written inside an item, in source order
InnerSwitches(it) ==
    CASE it = I_inner -> <<<<K_2, K_1>>>>
      [] it = I_inner2 -> <<<<K_1>>, <<K_2, K_2>>>>
      [] OTHER -> << >>

\* the case lists of the switches of a block program, in source order
BlockOwned(q) ==
    LET outer == q[2] = T_switch
        its == SubSeq(q, IF outer THEN 4 ELSE 3, Len(q) - 1)
    IN  (IF outer THEN <<Flatten([i \in 1..Len(its) |-> OuterCases(its[i])])>> ELSE << >>)
        \o Flatten([i \in 1..Len(its) |-> InnerSwitches(its[i])])

\* for every switch of a source file, in source order, the constants of the
\* cases whose innermost enclosing switch it is, in source order
Owned(q) ==
    IF q \in Chains THEN ChainOwned(q)
    ELSE IF q \in Blocks THEN BlockOwned(q)
    ELSE << >>

\* the same for all the files the run translates
RunOwned ==
    Flatten([i \in 1..Len(args.input_files) |->
                IF EndsInDotB(args.input_files[i]) THEN Owned(fsys[args.input_files[i]])
                ELSE << >>])

\* the 64-bit word a case constant stands for
KValue(k) == case_constant(DefaultArgs, build, fgetc(Bytes(k))).value

\* the text prints the word v, as a signed or as an unsigned number
Denotes(text, v) == text = FmtLd(v) \/ text = FmtLu(v)

\* the lines `.L.stmts.<id>:`, one per switch, in the order of the buffer
StmtsLines ==
    SelectSeq(Indices(Len(buffer)), LAMBDA i : buffer[i].fmt = ".L.stmts.%ld:")

\* the line of the one label fmt with the id t
LabelLine(fmt, t) == CHOOSE i \in 1..Len(buffer) : buffer[i] = L(fmt, t)

\* the switch whose body starts at line s owns the constants ks: its table,
\* between .L.cmp.<id>: and .L.end.<id>:, is one cmp/je pair per constant in
\* this order and nothing else, and each constant has its case label in the
\* body, before the jmp .L.end.<id> that precedes the table
TableIs(s, ks) ==
    LET t == buffer[s].args
        c == LabelLine(".L.cmp.%ld:", t)
        e == LabelLine(".L.end.%ld:", t)
    IN  /\ \E i \in 1..Len(buffer) : buffer[i] = L(".L.cmp.%ld:", t)
        /\ \E i \in 1..Len(buffer) : buffer[i] = L(".L.end.%ld:", t)
        /\ s < c /\ c < e
        /\ buffer[c - 1] = L("  jmp .L.end.%ld", t)
        /\ e - c - 1 = 2 * Len(ks)
        /\ \A k \in 1..Len(ks) :
              /\ buffer[c + 2 * k - 1].fmt = "  cmp $%ld, %rax"
              /\ Denotes(buffer[c + 2 * k - 1].args[1], KValue(ks[k]))
              /\ buffer[c + 2 * k].fmt = "  je .L.case.%lu.%lu"
              /\ buffer[c + 2 * k].args[1] = t[1]
              /\ Denotes(buffer[c + 2 * k].args[2], KValue(ks[k]))
              /\ \E i \in (s + 1)..(c - 2) :
                    /\ buffer[i].fmt = ".L.case.%ld.%ld:"
                    /\ buffer[i].args[1] = t[1]
                    /\ Denotes(buffer[i].args[2], KValue(ks[k]))

\* C2: for every switch, nested ones included, the compare-and-jump sequence
\* after .L.cmp.<id>: is exactly one cmp/je pair per case whose innermost
\* enclosing switch is this one, in source order; a case of an inner switch
\* is not in the outer switch's table; every listed value has its case label
\* between .L.stmts.<id>: and the jmp .L.end.<id> before the table.  Values
\* are compared as 64-bit words; the spelling of a value is the matter of C3.
C2_DispatchTableIsOwnCases ==
    Compiled =>
        /\ Len(StmtsLines) = Len(RunOwned)
        /\ \A k \in 1..Len(StmtsLines) : TableIs(StmtsLines[k], RunOwned[k])

\* an outer switch with a case of its own and a switch with two cases nested
\* in its body has been translated
C2_NestedSwitchTranslated ==
    /\ Compiled
    /\ fsys["t.b"] = <<Fn_f, T_switch, T_open, I_case1, I_inner, T_close>>
    /\ Len(StmtsLines) = 2

\* what the driver logged
Has(op) == \E i \in 1..Len(events) : events[i].op = op
ExitedZero(op) ==
    \E i \in 1..Len(events) :
        events[i].op = op /\ events[i].kind = "exited" /\ events[i].code = 0
ExitedNonZero(op) ==
    \E i \in 1..Len(events) :
        events[i].op = op /\ events[i].kind = "exited" /\ events[i].code # 0

\* every child that ran ended with an exit status
ChildrenExited ==
    \A i \in 1..Len(events) :
        events[i].op \in {"as", "ld"} => events[i].kind \in {"exited", "wait_failed"}

\* C7: for every combination of -S and -c and every exit status of the
\* children: `as` runs only if assembling is requested and after a.s was
\* written; `ld` runs only if linking is requested and after `as` exited 0,
\* and linking is never requested without assembling; a.s is removed exactly
\* when `as` exited 0 and a.o exactly when `ld` exited 0; a child that exits
\* non-zero makes compile return 1 with no later step and the intermediate
\* file left; so -S leaves a.s and runs nothing, -c leaves a.o and does not
\* run ld, and with neither flag both files are gone after a success.
C7_DriverStepsAndFiles ==
    ChildrenExited =>
        /\ pc # "main" => (args.do_linking => args.do_assembling)
        /\ \A i \in 1..Len(events) :
              events[i].op = "as" =>
                  /\ args.do_assembling
                  /\ \E j \in 1..(i - 1) : events[j].op = "write a.s"
        /\ \A i \in 1..Len(events) :
              events[i].op = "ld" =>
                  /\ args.do_linking
                  /\ \E j \in 1..(i - 1) :
                        /\ events[j].op = "as"
                        /\ events[j].kind = "exited" /\ events[j].code = 0
        /\ Has("remove a.s") <=> ExitedZero("as")
        /\ Has("remove a.o") <=> ExitedZero("ld")
        /\ (A_S \in disk) <=> (Has("write a.s") /\ ~Has("remove a.s"))
        /\ ExitedNonZero("as") =>
              /\ pc = "exit" /\ ret = 1
              /\ ~Has("ld")
              /\ A_S \in disk
        /\ ExitedNonZero("ld") =>
              /\ pc = "exit" /\ ret = 1
              /\ A_O \in disk
        /\ (pc = "exit" /\ ret = 0 /\ Has("write a.s")) =>
              /\ ~args.do_assembling =>
                    A_S \in disk /\ ~Has("as") /\ ~Has("ld")
              /\ (args.do_assembling /\ ~args.do_linking) =>
                    A_O \in disk /\ A_S \notin disk /\ ~Has("ld")
              /\ args.do_linking => A_S \notin disk /\ A_O \notin disk

\* a run with neither flag has assembled and linked and removed both files
C7_LinkedAndCleaned ==
    /\ pc = "exit" /\ ret = 0
    /\ args.do_linking
    /\ ExitedZero("as") /\ ExitedZero("ld")
    /\ A_S \notin disk /\ A_O \notin disk

\* the number of places of the text txt where the word w stands
Occurs(txt, w) ==
    Cardinality({i \in 1..(Len(txt) - Len(w) + 1) : SubSeq(txt, i, i + Len(w) - 1) = w})

\* the number of if, while and switch statements written in a source file
StatementsIn(prog) ==
    Occurs(Flatten(prog), T_if) + Occurs(Flatten(prog), T_while)
        + Occurs(Flatten(prog), T_switch)

\* the same for the first n files the run translates
RECURSIVE StatementsUpTo(_)
StatementsUpTo(n) ==
    IF n = 0 THEN 0
    ELSE StatementsUpTo(n - 1)
         + (IF EndsInDotB(args.input_files[n]) THEN StatementsIn(fsys[args.input_files[n]])
            ELSE 0)

\* the first line an if, a while and a switch emits with its id, in the
\* order of the buffer: one line per statement
Openers ==
    SelectSeq(Indices(Len(buffer)),
              LAMBDA i : buffer[i].fmt \in {"  je .L.else.%lu", ".L.start.%lu:",
                                            "  jmp .L.cmp.%ld"})

\* the formats of the lines that carry a statement id and nothing else
IdFmts ==
    {"  je .L.else.%lu", "  jmp .L.end.%lu", ".L.else.%lu:", ".L.end.%lu:",
     ".L.start.%lu:", "  je .L.end.%lu", "  jmp .L.start.%lu",
     "  jmp .L.cmp.%ld", ".L.stmts.%ld:", "  jmp .L.end.%ld", ".L.cmp.%ld:", ".L.end.%ld:"}

\* the formats of the lines that carry the id t, in the order of the buffer
FmtsOfId(t) ==
    LET ls == SelectSeq(Indices(Len(buffer)),
                        LAMBDA i : buffer[i].fmt \in IdFmts /\ buffer[i].args = t)
    IN  [k \in 1..Len(ls) |-> buffer[ls[k]].fmt]

\* the lines one if, one while and one switch emit with their id
IdPatterns ==
    {<<"  je .L.else.%lu", "  jmp .L.end.%lu", ".L.else.%lu:", ".L.end.%lu:">>,
     <<".L.start.%lu:", "  je .L.end.%lu", "  jmp .L.start.%lu", ".L.end.%lu:">>,
     <<"  jmp .L.cmp.%ld", ".L.stmts.%ld:", "  jmp .L.end.%ld", ".L.cmp.%ld:",
       ".L.end.%ld:">>}

\* the text t prints an id the counter has given out
IsTakenId(t) == \E n \in 0..(stmt_id - 1) : FmtNat(n) = t
IdOf(t) == CHOOSE n \in 0..(stmt_id - 1) : FmtNat(n) = t

\* in the assembly of all the input files, every if, while and switch has
\* one id, taken at its entry: the ids grow in source order through nested
\* statements, functions and files, and the lines a statement emits before
\* and after its nested statements are the only lines with its id
IdsTakenOnceInOrder ==
    Compiled =>
        /\ Len(Openers) = StatementsUpTo(Len(args.input_files))
        /\ \A k \in 1..Len(Openers) :
              /\ IsTakenId(buffer[Openers[k]].args[1])
              /\ FmtsOfId(buffer[Openers[k]].args) \in IdPatterns
        /\ \A k, l \in 1..Len(Openers) :
              k < l => IdOf(buffer[Openers[k]].args[1]) < IdOf(buffer[Openers[l]].args[1])

\* C11: the statement-id counter never decreases during a run, it is not
\* reset between functions or files; every if, while and switch takes its id
\* once at entry, before its nested statements, so any two of them in the
\* run (nested, sequential, in different functions or files) have different
\* ids, and the labels a statement emits before and after its nested
\* statements all carry its own id.
C11_StatementIdsIncrease ==
    /\ [][stmt_id' >= stmt_id]_vars
    /\ []IdsTakenOnceInOrder

\* a run of two files has been translated: a while in t.b, and in u.b an if
\* around a while in one function and a while in another
C11_TwoFilesTwoFunctionsTranslated ==
    /\ Compiled
    /\ Len(args.input_files) = 3
    /\ fsys["u.b"] = TwoFunctions
    /\ Len(Openers) = 4
    /\ stmt_id = 4

=============================================================================
